---- MODULE Spec2Model ----
(***************************************************************************)
(* Model of esp32-railnet-exporter (src/src/main.cpp): the line            *)
(* reassembler parseResponseBufferIntoLineBuffer, the field extractor      *)
(* checkLineBuffer with its findValueField helper, and the session state   *)
(* machine of loop() that resets the parser, feeds it the portal page,     *)
(* submits the form and then fetches/forwards the JSON document.           *)
(*                                                                         *)
(* A std::string is a sequence of one-character strings.  A                *)
(* std::optional<T> is a sequence of length 0 (nullopt) or 1 (the value).  *)
(* std::string::find returns a 1-based position here, npos is 0.           *)
(***************************************************************************)
EXTENDS Integers, Sequences, FiniteSets, TLC

(***************************************************************************)
(* Program constants.                                                      *)
(***************************************************************************)
\* enum State
INIT == 0
WIFI_CONNECTED == 1
REQUEST_MADE == 2
REQUEST_PARSED == 3
POST_SUCCEEDED == 4
ENDPOINT_REACHED == 5

\* enum ParserState
PARSER_INIT == 0
SEARCH_STRING_FOUND == 1
TOKEN_FIELD_FOUND == 2
TOKEN_VALUE_FOUND == 3
CEID_FIELD_FOUND == 4
CEID_VALUE_FOUND == 5
CHECKIT_FIELD_FOUND == 6
CHECKIT_VALUE_FOUND == 7
FORMTYPE_FIELD_FOUND == 8
FORMTYPE_VALUE_FOUND == 9
DONE == 10

SEARCH_STRING ==
    <<"a","c","t","i","o","n","=","\"","h","t","t","p","s",":","/","/","r","a","i","l",
      "n","e","t",".","o","e","b","b",".","a","t","/">>
TOKEN_FIELD_ID ==
    <<"n","a","m","e","=","\"","_","t","o","k","e","n","\"">>
CEID_FIELD_ID ==
    <<"n","a","m","e","=","\"","_","c","e","i","d","\"">>
CHECKIT_FIELD_ID ==
    <<"n","a","m","e","=","\"","c","h","e","c","k","i","t","\"">>
FORMTYPE_FIELD_ID ==
    <<"n","a","m","e","=","\"","f","o","r","m","_","t","y","p","e","\"">>
VALUE_FIELD_BEGINNING ==
    <<"v","a","l","u","e","=","\"">>
VALUE_FIELD_BEGINNING_LEN == 7

\* lineBuffer is a std::array<std::string, 10>
LINE_BUFFER_SIZE == 10
\* char buff[128] of the read loop
BUFF_SIZE == 128
FIS_FETCH_INTERVAL_MS == 10000
\* retryTimeout = millis() + 5000
RETRY_DELAY_MS == 5000
\* delay(10) at the end of loop()
LOOP_DELAY_MS == 10
\* millis() is a uint32_t: kept as <<high, low>>, two 16-bit halves
HALF_MOD == 65536
HTTP_CODE_OK == 200

QUOTE == "\""
LF == "\n"
nullopt == <<>>

(***************************************************************************)
(* std::string and std::optional helpers.                                  *)
(***************************************************************************)
has_value(opt) == Len(opt) = 1

\* s.find(pat): the least 1-based position where pat occurs in s, 0 for npos
Find(s, pat) ==
    LET hits == {i \in 1..(Len(s) - Len(pat) + 1) : SubSeq(s, i, i + Len(pat) - 1) = pat}
    IN  IF hits = {} THEN 0 ELSE CHOOSE i \in hits : \A j \in hits : i <= j

\* the for loop of findValueField: copy characters from idx up to the first '"'
\* or the end of the line
RECURSIVE ScanValue(_, _)
ScanValue(line, idx) ==
    IF idx > Len(line) THEN <<>>
    ELSE IF line[idx] = QUOTE THEN <<>>
    ELSE <<line[idx]>> \o ScanValue(line, idx + 1)

(***************************************************************************)
(* The field extractor.  g is the record of the globals it reads and       *)
(* writes: parserState, formInformation, stateMachine, lineBuffer,         *)
(* bufferIndex, currentLine, and the history fields signals (number of     *)
(* completion signals since the reset) and lastStep (the line examined     *)
(* last, its ring slot, the parser state and the values before it, the     *)
(* number of passes of the loop, the parser state the loop ended in, and   *)
(* the number of line steps since the reset).                              *)
(***************************************************************************)


\* mutant: the scan starts one character early, on the opening quote
findValueFieldOffByOne(current_line_in_buffer, g, value_ref, newParserState) ==
    LET value_pos == Find(current_line_in_buffer, VALUE_FIELD_BEGINNING)
    IN  IF value_pos # 0
        THEN [g EXCEPT
                !.formInformation[value_ref] =
                    <<ScanValue(current_line_in_buffer,
                                value_pos + VALUE_FIELD_BEGINNING_LEN - 1)>>,
                !.parserState = newParserState]
        ELSE g

\* mutant: the value is stored but the parser state is not advanced
findValueFieldNoAdvance(current_line_in_buffer, g, value_ref, newParserState) ==
    LET value_pos == Find(current_line_in_buffer, VALUE_FIELD_BEGINNING)
    IN  IF value_pos # 0
        THEN [g EXCEPT
                !.formInformation[value_ref] =
                    <<ScanValue(current_line_in_buffer, value_pos + VALUE_FIELD_BEGINNING_LEN)>>]
        ELSE g

findValueField(current_line_in_buffer, g, value_ref, newParserState) ==
    LET value_pos == Find(current_line_in_buffer, VALUE_FIELD_BEGINNING)
    IN  IF value_pos # 0
        THEN [g EXCEPT
                !.formInformation[value_ref] =
                    <<ScanValue(current_line_in_buffer, value_pos + VALUE_FIELD_BEGINNING_LEN)>>,
                !.parserState = newParserState]
        ELSE g

\* a marker state: advance when the line contains the marker
findMarker(current_line_in_buffer, g, marker, newParserState) ==
    IF Find(current_line_in_buffer, marker) # 0
    THEN [g EXCEPT !.parserState = newParserState]
    ELSE g

\* mutant: case TOKEN_FIELD_FOUND stores the value into _ceid
SwitchPassWrongField(line, g) ==
    CASE g.parserState = PARSER_INIT ->
            findMarker(line, g, SEARCH_STRING, SEARCH_STRING_FOUND)
      [] g.parserState = SEARCH_STRING_FOUND ->
            findMarker(line, g, TOKEN_FIELD_ID, TOKEN_FIELD_FOUND)
      [] g.parserState = TOKEN_FIELD_FOUND ->
            findValueField(line, g, "_ceid", TOKEN_VALUE_FOUND)
      [] g.parserState = TOKEN_VALUE_FOUND ->
            findMarker(line, g, CEID_FIELD_ID, CEID_FIELD_FOUND)
      [] g.parserState = CEID_FIELD_FOUND ->
            findValueField(line, g, "_ceid", CEID_VALUE_FOUND)
      [] g.parserState = CEID_VALUE_FOUND ->
            findMarker(line, g, CHECKIT_FIELD_ID, CHECKIT_FIELD_FOUND)
      [] g.parserState = CHECKIT_FIELD_FOUND ->
            findValueField(line, g, "checkit", CHECKIT_VALUE_FOUND)
      [] g.parserState = CHECKIT_VALUE_FOUND ->
            findMarker(line, g, FORMTYPE_FIELD_ID, FORMTYPE_FIELD_FOUND)
      [] g.parserState = FORMTYPE_FIELD_FOUND ->
            findValueField(line, g, "form_type", FORMTYPE_VALUE_FOUND)
      [] OTHER -> g

\* one pass through the switch of the do-while loop
SwitchPass(line, g) ==
    CASE g.parserState = PARSER_INIT ->
            findMarker(line, g, SEARCH_STRING, SEARCH_STRING_FOUND)
      [] g.parserState = SEARCH_STRING_FOUND ->
            findMarker(line, g, TOKEN_FIELD_ID, TOKEN_FIELD_FOUND)
      [] g.parserState = TOKEN_FIELD_FOUND ->
            findValueField(line, g, "_token", TOKEN_VALUE_FOUND)
      [] g.parserState = TOKEN_VALUE_FOUND ->
            findMarker(line, g, CEID_FIELD_ID, CEID_FIELD_FOUND)
      [] g.parserState = CEID_FIELD_FOUND ->
            findValueField(line, g, "_ceid", CEID_VALUE_FOUND)
      [] g.parserState = CEID_VALUE_FOUND ->
            findMarker(line, g, CHECKIT_FIELD_ID, CHECKIT_FIELD_FOUND)
      [] g.parserState = CHECKIT_FIELD_FOUND ->
            findValueField(line, g, "checkit", CHECKIT_VALUE_FOUND)
      [] g.parserState = CHECKIT_VALUE_FOUND ->
            findMarker(line, g, FORMTYPE_FIELD_ID, FORMTYPE_FIELD_FOUND)
      [] g.parserState = FORMTYPE_FIELD_FOUND ->
            findValueField(line, g, "form_type", FORMTYPE_VALUE_FOUND)
      [] OTHER -> g


\* mutant: one transition per line, no second pass over the same line
SinglePass(line, g, passes) ==
    [g |-> SwitchPass(line, g), passes |-> passes + 1]

\* mutant: the switch is run a fixed number of times, one more than there are
\* parser states, instead of until the state stops changing
RECURSIVE DoWhileFixedCount(_, _, _)
DoWhileFixedCount(line, g, passes) ==
    IF passes = DONE + 2
    THEN [g |-> g, passes |-> passes]
    ELSE DoWhileFixedCount(line, SwitchPass(line, g), passes + 1)

\* do { previousParserState = parserState; switch ... } while (parserState != previousParserState)
\* passes counts the passes made so far
RECURSIVE DoWhile(_, _, _)
DoWhile(line, g, passes) ==
    LET after == SwitchPass(line, g)
    IN  IF after.parserState # g.parserState
        THEN DoWhile(line, after, passes + 1)
        ELSE [g |-> after, passes |-> passes + 1]

AllValuesPresent(fi) ==
    /\ has_value(fi._token)
    /\ has_value(fi._ceid)
    /\ has_value(fi.checkit)
    /\ has_value(fi.form_type)


\* mutant: the completion rule signals the session but leaves the parser state
CompletionRuleNoDone(g) ==
    IF AllValuesPresent(g.formInformation) /\ g.parserState # DONE
    THEN [g EXCEPT !.stateMachine = REQUEST_PARSED,
                   !.signals = @ + 1]
    ELSE g

\* mutant: the completion rule joins the four tests with || instead of &&
CompletionRuleAnyValue(g) ==
    IF /\ \/ has_value(g.formInformation._token)
          \/ has_value(g.formInformation._ceid)
          \/ has_value(g.formInformation.checkit)
          \/ has_value(g.formInformation.form_type)
       /\ g.parserState # DONE
    THEN [g EXCEPT !.parserState = DONE,
                   !.stateMachine = REQUEST_PARSED,
                   !.signals = @ + 1]
    ELSE g

\* mutant: the completion rule puts the parser back to its first state
CompletionRuleRestart(g) ==
    IF AllValuesPresent(g.formInformation) /\ g.parserState # DONE
    THEN [g EXCEPT !.parserState = PARSER_INIT,
                   !.stateMachine = REQUEST_PARSED,
                   !.signals = @ + 1]
    ELSE g

\* mutant: the completion rule without the test parserState != DONE
CompletionRuleUnguarded(g) ==
    IF AllValuesPresent(g.formInformation)
    THEN [g EXCEPT !.parserState = DONE,
                   !.stateMachine = REQUEST_PARSED,
                   !.signals = @ + 1]
    ELSE g

\* the completion rule after the loop
CompletionRule(g) ==
    IF AllValuesPresent(g.formInformation) /\ g.parserState # DONE
    THEN [g EXCEPT !.parserState = DONE,
                   !.stateMachine = REQUEST_PARSED,
                   !.signals = @ + 1]
    ELSE g

checkLineBuffer(g) ==
    LET current_line_in_buffer == g.lineBuffer[g.bufferIndex]
        looped == DoWhile(current_line_in_buffer, g, 0)
        done == CompletionRule(looped.g)
    IN  [done EXCEPT !.lastStep =
            [line |-> current_line_in_buffer,
             slot |-> g.bufferIndex,
             pre |-> g.parserState,
             preInfo |-> g.formInformation,
             passes |-> looped.passes,
             post |-> looped.g.parserState,
             count |-> g.lastStep.count + 1]]

(***************************************************************************)
(* The line reassembler.                                                   *)
(***************************************************************************)
\* mutant: the running counter advances before the extractor is called, which then
\* reads the next slot
FeedByteAdvanceFirst(g, c) ==
    IF c = LF
    THEN LET stored == [g EXCEPT !.currentLine = Append(@, c),
                                  !.lineBuffer[g.bufferIndex] = Append(g.currentLine, c)]
             advanced == [stored EXCEPT !.bufferIndex = (@ + 1) % LINE_BUFFER_SIZE]
             checked == checkLineBuffer(advanced)
         IN  [checked EXCEPT !.currentLine = <<>>]
    ELSE [g EXCEPT !.currentLine = Append(@, c)]

\* mutant: currentLine.clear() is missing after a line was handed on
FeedByteNoClear(g, c) ==
    IF c = LF
    THEN LET stored == [g EXCEPT !.currentLine = Append(@, c),
                                  !.lineBuffer[g.bufferIndex] = Append(g.currentLine, c)]
             checked == checkLineBuffer(stored)
         IN  [checked EXCEPT !.bufferIndex = (@ + 1) % LINE_BUFFER_SIZE]
    ELSE [g EXCEPT !.currentLine = Append(@, c)]

\* the body of the for loop for one byte c
FeedByte(g, c) ==
    IF c = LF
    THEN LET stored == [g EXCEPT !.currentLine = Append(@, c),
                                  !.lineBuffer[g.bufferIndex] = Append(g.currentLine, c)]
             checked == checkLineBuffer(stored)
         IN  [checked EXCEPT !.bufferIndex = (@ + 1) % LINE_BUFFER_SIZE,
                             !.currentLine = <<>>]
    ELSE [g EXCEPT !.currentLine = Append(@, c)]

\* for (pos = 0; pos < len; ++pos): the bytes buf[from..to] in order.  The range is
\* halved, and the test on the left half's result makes TLC evaluate it before the
\* right half, which keeps the evaluation stack shallow.
RECURSIVE FeedRange(_, _, _, _)
FeedRange(g, buf, from, to) ==
    IF from > to THEN g
    ELSE IF from = to THEN FeedByte(g, buf[from])
    ELSE LET mid == (from + to) \div 2
             left == FeedRange(g, buf, from, mid)
         IN  IF left.bufferIndex < LINE_BUFFER_SIZE
             THEN FeedRange(left, buf, mid + 1, to)
             ELSE left


\* mutant: the accumulator is local to the call, so a line cut by a chunk boundary
\* loses its first part
LocalAccumulatorParse(g, buf) ==
    FeedRange([g EXCEPT !.currentLine = <<>>], buf, 1, Len(buf))

\* mutant: what is left in the accumulator at the end of a chunk is handed on as a
\* line
FlushAtChunkEnd(g, buf) ==
    LET looped == FeedRange(g, buf, 1, Len(buf))
    IN  IF looped.currentLine # <<>> THEN FeedByte(looped, LF) ELSE looped

parseResponseBufferIntoLineBuffer(g, buf) == FeedRange(g, buf, 1, Len(buf))

(***************************************************************************)
(* Bounds of the model.                                                    *)
(***************************************************************************)
\* loop() calls explored
MaxLoops == 5
\* a short read: stream->available() returned this many bytes
MidChunk == 7

(***************************************************************************)
(* The pages the portal may deliver (the byte source of the GET).          *)
(***************************************************************************)
ValueAttr(v) == VALUE_FIELD_BEGINNING \o v \o <<QUOTE>>
Field(marker, v) == marker \o <<" ">> \o ValueAttr(v)
Ln(s) == s \o <<LF>>

RefAction == SEARCH_STRING \o <<"e","n","/","c","o","n","n","e","c","t","t","o","w","e","b">> \o <<QUOTE>>
ShortAction == SEARCH_STRING \o <<QUOTE>>
Tok123 == <<"t","o","k","1","2","3">>
Ce9 == <<"c","e","9">>
One == <<"1">>
Login == <<"l","o","g","i","n">>
Trunc == <<"t","r","u","n","c">>

\* the reference stream of the specification's example
ReferencePage ==
    Ln(RefAction) \o Ln(Field(TOKEN_FIELD_ID, Tok123)) \o Ln(Field(CEID_FIELD_ID, Ce9))
    \o Ln(Field(CHECKIT_FIELD_ID, One)) \o Ln(Field(FORMTYPE_FIELD_ID, Login))

\* a token line repeated with another value, and again after the form is complete
RepeatPage ==
    Ln(ShortAction) \o Ln(Field(TOKEN_FIELD_ID, <<"a">>)) \o Ln(Field(TOKEN_FIELD_ID, <<"b">>))
    \o Ln(Field(CEID_FIELD_ID, <<"c">>)) \o Ln(Field(CHECKIT_FIELD_ID, <<"d">>))
    \o Ln(Field(FORMTYPE_FIELD_ID, <<"e">>)) \o Ln(Field(TOKEN_FIELD_ID, <<"z">>))

\* marker and value on different lines, the value without its closing quote
TruncPage ==
    Ln(ShortAction) \o Ln(TOKEN_FIELD_ID) \o Ln(<<"<","p",">">>)
    \o Ln(VALUE_FIELD_BEGINNING \o Trunc)

\* the whole form on one physical line
OneLinePage ==
    Ln(ShortAction \o <<" ">> \o Field(TOKEN_FIELD_ID, <<"a">>) \o <<" ">>
       \o Field(CEID_FIELD_ID, <<"b">>) \o <<" ">> \o Field(CHECKIT_FIELD_ID, <<"c">>)
       \o <<" ">> \o Field(FORMTYPE_FIELD_ID, <<"d">>))

\* another input's value attribute before the token field on the same line
ValueFirstPage ==
    Ln(ShortAction) \o Ln(ValueAttr(One) \o <<" ">> \o Field(TOKEN_FIELD_ID, Tok123))

\* eleven empty lines (one lap of the ring and one more), the form start, and
\* a token line that never gets its line feed
TailPage ==
    <<LF, LF, LF, LF, LF, LF, LF, LF, LF, LF, LF>> \o Ln(ShortAction)
    \o Field(TOKEN_FIELD_ID, Tok123)

\* fields in another order than the extractor expects
DisorderPage ==
    Ln(Field(CEID_FIELD_ID, <<"b">>)) \o Ln(ShortAction) \o Ln(Field(TOKEN_FIELD_ID, <<"a">>))

Pages ==
    {ReferencePage, RepeatPage, TruncPage, OneLinePage, ValueFirstPage, TailPage,
     DisorderPage, <<>>}

(***************************************************************************)
(* Time.  millis() is a free-running 32-bit millisecond counter.  setup()  *)
(* waits for the WiFi link for an unbounded time, so loop() may start at   *)
(* any clock value; two are explored, one shortly before the counter       *)
(* wraps.  Only the delay(10) at the end of loop() is taken to consume     *)
(* time.                                                                   *)
(***************************************************************************)
StartClocks == {<<0, 1000>>, <<HALF_MOD - 1, HALF_MOD - 2 * LOOP_DELAY_MS>>}
\* consecutive loop() calls that find nothing to do, each ending in delay(10)
IdleRuns == {1, 1001}
\* what HTTPClient::GET and ::POST return: an error (negative), OK, another status
HttpCodes == {-1, HTTP_CODE_OK, 404}

\* uint32_t arithmetic; n is a number below 2^16
U32(n) == <<0, n>>
Plus32(a, n) ==
    <<(a[1] + ((a[2] + n) \div HALF_MOD)) % HALF_MOD, (a[2] + n) % HALF_MOD>>
Minus32(a, b) ==
    LET borrow == IF a[2] < b[2] THEN 1 ELSE 0
    IN  <<(a[1] - b[1] - borrow + 2 * HALF_MOD) % HALF_MOD,
          (a[2] - b[2] + HALF_MOD) % HALF_MOD>>
Greater32(a, b) == a[1] > b[1] \/ (a[1] = b[1] /\ a[2] > b[2])

(***************************************************************************)
(* State.                                                                  *)
(***************************************************************************)
VARIABLES
    stateMachine,        \* State stateMachine
    parserState,         \* ParserState parserState
    formInformation,     \* FormInformation formInformation
    lineBuffer,          \* std::array<std::string, 10> lineBuffer
    currentLine,         \* std::string currentLine (the accumulator)
    bufferIndex,         \* uint8_t bufferIndex (the running counter)
    retryTimeout,        \* std::optional<uint32_t> retryTimeout
    lastFisFetchMillis,  \* uint32_t lastFisFetchMillis
    millis,              \* the value millis() returns
    pc,                  \* "loop": between two loop() calls; "reading": in the read loop
    stream,              \* bytes of the response body not yet read
    loops,               \* loop() calls made
    attempts,            \* history: fetch-and-parse attempts started
    fed,                 \* history: the bytes fed to the parser since the reset
    cutInValue,          \* history: a chunk boundary fell inside a quoted value
    discarded,           \* history: the last reset threw away a captured token
    signals,             \* history: completion signals since the reset
    lastStep,            \* history: the last line step of checkLineBuffer
    formPostOk,          \* history: the form POST has returned HTTP OK
    postData,            \* history: the values the last form POST was built from
    fisReads             \* history: the clock reads of the last two JSON fetches

vars == <<stateMachine, parserState, formInformation, lineBuffer, currentLine,
          bufferIndex, retryTimeout, lastFisFetchMillis, millis, pc, stream, loops,
          attempts, fed, cutInValue, discarded, signals, lastStep, formPostOk, postData,
          fisReads>>

NoFormInformation ==
    [_token |-> nullopt, _ceid |-> nullopt, checkit |-> nullopt, form_type |-> nullopt]
EmptyLineBuffer == [i \in 0..(LINE_BUFFER_SIZE - 1) |-> <<>>]
NoStep ==
    [line |-> <<>>, slot |-> 0, pre |-> PARSER_INIT, preInfo |-> NoFormInformation,
     passes |-> 0, post |-> PARSER_INIT, count |-> 0]

\* the globals of the parser as one record
Globals ==
    [stateMachine |-> stateMachine, parserState |-> parserState,
     formInformation |-> formInformation, lineBuffer |-> lineBuffer,
     currentLine |-> currentLine, bufferIndex |-> bufferIndex,
     signals |-> signals, lastStep |-> lastStep]

\* clearFormInformation()
clearFormInformation(fi) ==
    [fi EXCEPT !._token = nullopt, !._ceid = nullopt, !.checkit = nullopt,
               !.form_type = nullopt]


\* mutant: the reset without clearFormInformation()
ResetGlobalsKeepForm(g) ==
    [g EXCEPT !.lineBuffer = EmptyLineBuffer,
              !.currentLine = <<>>,
              !.bufferIndex = 0,
              !.parserState = PARSER_INIT,
              !.stateMachine = REQUEST_MADE,
              !.signals = 0,
              !.lastStep = NoStep]

\* the reset at the start of case WIFI_CONNECTED
ResetGlobals(g) ==
    [g EXCEPT !.lineBuffer = EmptyLineBuffer,
              !.currentLine = <<>>,
              !.bufferIndex = 0,
              !.formInformation = clearFormInformation(@),
              !.parserState = PARSER_INIT,
              !.stateMachine = REQUEST_MADE,
              !.signals = 0,
              !.lastStep = NoStep]

\* the parser's globals of a fresh session
FreshGlobals ==
    [stateMachine |-> REQUEST_MADE, parserState |-> PARSER_INIT,
     formInformation |-> NoFormInformation, lineBuffer |-> EmptyLineBuffer,
     currentLine |-> <<>>, bufferIndex |-> 0, signals |-> 0, lastStep |-> NoStep]

SetGlobals(g) ==
    /\ stateMachine' = g.stateMachine
    /\ parserState' = g.parserState
    /\ formInformation' = g.formInformation
    /\ lineBuffer' = g.lineBuffer
    /\ currentLine' = g.currentLine
    /\ bufferIndex' = g.bufferIndex
    /\ signals' = g.signals
    /\ lastStep' = g.lastStep

\* the state after setup(), which returns at one of the clock values `clocks`
SetupDone(clocks) ==
    /\ stateMachine = WIFI_CONNECTED
    /\ parserState = PARSER_INIT
    /\ formInformation = NoFormInformation
    /\ lineBuffer = EmptyLineBuffer
    /\ currentLine = <<>>
    /\ bufferIndex = 0
    /\ retryTimeout = nullopt
    /\ lastFisFetchMillis = U32(0)
    /\ millis \in clocks
    /\ pc = "loop"
    /\ stream = <<>>
    /\ loops = 0
    /\ attempts = 0
    /\ fed = <<>>
    /\ cutInValue = FALSE
    /\ discarded = FALSE
    /\ signals = 0
    /\ lastStep = NoStep
    /\ formPostOk = FALSE
    /\ postData = nullopt
    /\ fisReads = <<>>

Init == SetupDone(StartClocks)

(***************************************************************************)
(* loop().  Every call starts with the retry check.                        *)
(***************************************************************************)
\* if (retryTimeout && millis() > *retryTimeout)
RetryFires == has_value(retryTimeout) /\ Greater32(millis, retryTimeout[1])
StateAfterRetryCheck == IF RetryFires THEN WIFI_CONNECTED ELSE stateMachine
ParserAfterRetryCheck == IF RetryFires THEN PARSER_INIT ELSE parserState
TimeoutAfterRetryCheck == IF RetryFires THEN nullopt ELSE retryTimeout

LoopStart ==
    /\ pc = "loop"
    /\ loops < MaxLoops
    /\ loops' = loops + 1

\* retryTimeout = millis() + 5000
ScheduleRetry(now) == <<Plus32(now, RETRY_DELAY_MS)>>

\* case WIFI_CONNECTED: the reset, then the GET; on HTTP OK the read loop starts
WifiConnectedCase ==
    /\ StateAfterRetryCheck = WIFI_CONNECTED
    /\ attempts' = attempts + 1
    /\ fed' = <<>>
    /\ cutInValue' = FALSE
    /\ discarded' = has_value(formInformation._token)
    /\ SetGlobals(ResetGlobals(Globals))
    /\ \E began \in BOOLEAN, httpCode \in HttpCodes :
          IF began /\ httpCode > 0 /\ httpCode = HTTP_CODE_OK
          THEN /\ \E page \in Pages : stream' = page
               /\ pc' = "reading"
               /\ retryTimeout' = TimeoutAfterRetryCheck
               /\ millis' = millis
          ELSE /\ stream' = <<>>
               /\ pc' = "loop"
               /\ retryTimeout' = ScheduleRetry(millis)
               /\ millis' = Plus32(millis, LOOP_DELAY_MS)
    /\ UNCHANGED <<lastFisFetchMillis, formPostOk, postData, fisReads>>

LoopWifiConnected == LoopStart /\ WifiConnectedCase

\* the accumulator ends inside a quoted value: value=" seen, its closing quote not yet
OpenValue(line) ==
    LET value_pos == Find(line, VALUE_FIELD_BEGINNING)
    IN  /\ value_pos # 0
        /\ \A i \in (value_pos + VALUE_FIELD_BEGINNING_LEN)..Len(line) : line[i] # QUOTE

\* the lengths readBytes may return when `available` bytes can be read
ChunkLens(available) == {0, 1, MidChunk, available} \cap 0..available

\* one iteration of the read loop: up to sizeof(buff) bytes are read and fed; the
\* loop is left as soon as the parser has signalled completion
ReadChunk ==
    /\ pc = "reading"
    /\ stream # <<>>
    /\ \E c \in ChunkLens(IF Len(stream) > BUFF_SIZE THEN BUFF_SIZE ELSE Len(stream)) :
          LET buff == SubSeq(stream, 1, c)
              g == parseResponseBufferIntoLineBuffer(Globals, buff)
          IN  /\ SetGlobals(g)
              /\ stream' = SubSeq(stream, c + 1, Len(stream))
              /\ fed' = fed \o buff
              /\ cutInValue' = (cutInValue \/ (c > 0 /\ OpenValue(g.currentLine)))
              /\ IF g.stateMachine = REQUEST_PARSED
                 THEN /\ pc' = "loop"
                      /\ millis' = Plus32(millis, LOOP_DELAY_MS)
                 ELSE /\ pc' = "reading"
                      /\ millis' = millis
    /\ UNCHANGED <<retryTimeout, lastFisFetchMillis, loops, attempts, discarded,
                   formPostOk, postData, fisReads>>

\* the body has ended (connection closed or Content-Length reached) before the
\* parser signalled completion: Form parsing did not complete successfully
ReadEnd ==
    /\ pc = "reading"
    /\ stream = <<>>
    /\ pc' = "loop"
    /\ retryTimeout' = ScheduleRetry(millis)
    /\ millis' = Plus32(millis, LOOP_DELAY_MS)
    /\ UNCHANGED <<stateMachine, parserState, formInformation, lineBuffer, currentLine,
                   bufferIndex, lastFisFetchMillis, stream, loops, attempts, fed,
                   cutInValue, discarded, signals, lastStep, formPostOk, postData,
                   fisReads>>


\* mutant: any answer of the server counts, the test httpCode == HTTP_CODE_OK is missing
StateAfterFormPostAnyCode(current, httpCode) ==
    IF httpCode > 0 THEN POST_SUCCEEDED ELSE current

\* if (httpCode > 0) { if (httpCode == HTTP_CODE_OK) stateMachine = POST_SUCCEEDED; }
StateAfterFormPost(current, httpCode) ==
    IF httpCode > 0 /\ httpCode = HTTP_CODE_OK THEN POST_SUCCEEDED ELSE current

\* case REQUEST_PARSED: the form POST built from the four values
LoopRequestParsed ==
    /\ LoopStart
    /\ StateAfterRetryCheck = REQUEST_PARSED
    /\ parserState' = ParserAfterRetryCheck
    /\ retryTimeout' = TimeoutAfterRetryCheck
    /\ millis' = Plus32(millis, LOOP_DELAY_MS)
    /\ IF ~AllValuesPresent(formInformation)
       THEN /\ stateMachine' = StateAfterRetryCheck
            /\ UNCHANGED <<formPostOk, postData>>
       ELSE \E began \in BOOLEAN, httpCode \in HttpCodes :
               IF began
               THEN /\ postData' = <<formInformation>>
                    /\ stateMachine' = StateAfterFormPost(StateAfterRetryCheck, httpCode)
                    /\ formPostOk' = (formPostOk \/ httpCode = HTTP_CODE_OK)
               ELSE /\ stateMachine' = StateAfterRetryCheck
                    /\ UNCHANGED <<formPostOk, postData>>
    /\ UNCHANGED <<formInformation, lineBuffer, currentLine, bufferIndex,
                   lastFisFetchMillis, pc, stream, attempts, fed, cutInValue, discarded,
                   signals, lastStep, fisReads>>

\* if (lastFisFetchMillis == 0 || (millis() - lastFisFetchMillis) > FIS_FETCH_INTERVAL_MS)
FisFetchDue(now, last) ==
    \/ last = U32(0)
    \/ Greater32(Minus32(now, last), U32(FIS_FETCH_INTERVAL_MS))

\* mutant: a failed fetch or forward starts the session over
StateAfterForwardStartOver(current, began, getCode, postBegan, postCode) ==
    IF /\ began
       /\ getCode > 0 /\ getCode = HTTP_CODE_OK
       /\ postBegan
       /\ postCode > 0 /\ postCode = HTTP_CODE_OK
    THEN ENDPOINT_REACHED
    ELSE WIFI_CONNECTED

\* the state after the GET of combined.json and the POST to the endpoint
StateAfterForward(current, began, getCode, postBegan, postCode) ==
    IF /\ began
       /\ getCode > 0 /\ getCode = HTTP_CODE_OK
       /\ postBegan
       /\ postCode > 0 /\ postCode = HTTP_CODE_OK
    THEN ENDPOINT_REACHED
    ELSE current

\* case POST_SUCCEEDED / ENDPOINT_REACHED with the fetch due: GET combined.json and
\* POST it to the endpoint
LoopFisFetch ==
    /\ LoopStart
    /\ StateAfterRetryCheck \in {POST_SUCCEEDED, ENDPOINT_REACHED}
    /\ FisFetchDue(millis, lastFisFetchMillis)
    /\ parserState' = ParserAfterRetryCheck
    /\ retryTimeout' = TimeoutAfterRetryCheck
    /\ lastFisFetchMillis' = millis
    /\ fisReads' = IF fisReads = <<>> THEN <<millis>>
                   ELSE <<fisReads[Len(fisReads)], millis>>
    /\ \E began \in BOOLEAN, getCode \in HttpCodes, postBegan \in BOOLEAN,
          postCode \in HttpCodes :
          stateMachine' =
              StateAfterForward(StateAfterRetryCheck, began, getCode, postBegan, postCode)
    /\ millis' = Plus32(millis, LOOP_DELAY_MS)
    /\ UNCHANGED <<formInformation, lineBuffer, currentLine, bufferIndex, pc, stream,
                   attempts, fed, cutInValue, discarded, signals, lastStep, formPostOk,
                   postData>>

\* loop() calls with nothing to do: the default case (INIT, REQUEST_MADE), or the
\* JSON fetch not yet due; each call only runs delay(10)
LoopIdle ==
    /\ LoopStart
    /\ \/ StateAfterRetryCheck \in {INIT, REQUEST_MADE}
       \/ /\ StateAfterRetryCheck \in {POST_SUCCEEDED, ENDPOINT_REACHED}
          /\ ~FisFetchDue(millis, lastFisFetchMillis)
    /\ stateMachine' = StateAfterRetryCheck
    /\ parserState' = ParserAfterRetryCheck
    /\ retryTimeout' = TimeoutAfterRetryCheck
    /\ \E n \in IdleRuns : millis' = Plus32(millis, n * LOOP_DELAY_MS)
    /\ UNCHANGED <<formInformation, lineBuffer, currentLine, bufferIndex,
                   lastFisFetchMillis, pc, stream, attempts, fed, cutInValue, discarded,
                   signals, lastStep, formPostOk, postData, fisReads>>

Next ==
    \/ LoopWifiConnected
    \/ ReadChunk
    \/ ReadEnd
    \/ LoopRequestParsed
    \/ LoopFisFetch
    \/ LoopIdle

Spec == Init /\ [][Next]_vars

TypeOK ==
    /\ stateMachine \in INIT..ENDPOINT_REACHED
    /\ parserState \in PARSER_INIT..DONE
    /\ bufferIndex \in 0..(LINE_BUFFER_SIZE - 1)
    /\ millis \in (0..(HALF_MOD - 1)) \X (0..(HALF_MOD - 1))
    /\ pc \in {"loop", "reading"}

(***************************************************************************)
(* The retry policy over unboundedly many loop() calls: the session up to  *)
(* the completion signal.  The Arduino core calls loop() again whenever it *)
(* returns, so the steps that are whole loop() calls are weakly fair; the  *)
(* read loop depends on the network and has no fairness.  The loop() calls *)
(* that only find the retry not yet due follow each other at LOOP_DELAY_MS *)
(* and are taken as one step.                                              *)
(***************************************************************************)
\* fetch-and-parse attempts explored by LiveSpec
MaxAttempts == 3

\* setup() may also return RETRY_DELAY_MS + 1 ms before the clock wraps
LiveStartClocks == StartClocks \cup {<<HALF_MOD - 1, HALF_MOD - 1 - RETRY_DELAY_MS>>}

LiveInit == SetupDone(LiveStartClocks)

\* a uint32_t modulo LOOP_DELAY_MS
ModDelay(a) ==
    ((a[1] % LOOP_DELAY_MS) * (HALF_MOD % LOOP_DELAY_MS) + (a[2] % LOOP_DELAY_MS))
        % LOOP_DELAY_MS

\* the clock read by the first loop() call, of those following each other at
\* LOOP_DELAY_MS from `now`, that comes after the clock has passed `timeout`; in
\* uint32_t, so the value read has wrapped when `timeout` is within LOOP_DELAY_MS
\* of the largest value
ClockPastTimeout(now, timeout) ==
    Plus32(timeout, LOOP_DELAY_MS - ModDelay(Minus32(timeout, now)))

\* a loop() call that runs case WIFI_CONNECTED
LiveAttempt ==
    /\ pc = "loop"
    /\ attempts < MaxAttempts
    /\ WifiConnectedCase
    /\ UNCHANGED loops

\* the loop() calls in state REQUEST_MADE that find the retry not yet due: each
\* runs the retry check, the default case and delay(10)
LiveWait ==
    /\ pc = "loop"
    /\ StateAfterRetryCheck = REQUEST_MADE
    /\ has_value(retryTimeout)
    /\ millis' = ClockPastTimeout(millis, retryTimeout[1])
    /\ UNCHANGED <<stateMachine, parserState, formInformation, lineBuffer, currentLine,
                   bufferIndex, retryTimeout, lastFisFetchMillis, pc, stream, loops,
                   attempts, fed, cutInValue, discarded, signals, lastStep, formPostOk,
                   postData, fisReads>>

LiveNext ==
    \/ LiveAttempt
    \/ ReadChunk
    \/ ReadEnd
    \/ LiveWait

LiveSpec ==
    /\ LiveInit
    /\ [][LiveNext]_vars
    /\ WF_vars(LiveAttempt)
    /\ WF_vars(LiveWait)

(***************************************************************************)
(* Properties.                                                             *)
(***************************************************************************)
\* what the parser holds after the bytes are fed as one chunk to a fresh session
FreshParse(bytes) == parseResponseBufferIntoLineBuffer(FreshGlobals, bytes)

Completed == stateMachine \in {REQUEST_PARSED, POST_SUCCEEDED, ENDPOINT_REACHED}
FieldNames == {"_token", "_ceid", "checkit", "form_type"}

\* C1: chunk-boundary independence.  However the bytes fed since the reset were
\* cut into chunks (lengths 0, 1, MidChunk and all that is available, so every
\* cut point occurs), the four values, the parser state, the accumulator, the
\* ring buffer, the running counter and the completion outcome are those of
\* feeding the same bytes as a single chunk.
C1_ChunkIndependence ==
    LET whole == FreshParse(fed)
    IN  /\ formInformation = whole.formInformation
        /\ parserState = whole.parserState
        /\ currentLine = whole.currentLine
        /\ lineBuffer = whole.lineBuffer
        /\ bufferIndex = whole.bufferIndex
        /\ signals = whole.signals
        /\ Completed <=> (whole.stateMachine = REQUEST_PARSED)

\* the reference page was fed in more than one chunk, a boundary fell inside a
\* quoted value, and the parse completed
C1_Witness ==
    /\ fed = ReferencePage
    /\ cutInValue
    /\ parserState = DONE

\* C2: the completion signal fires at most once between two resets, whatever is
\* fed after it; when it has fired all four values are present, the parser state
\* is DONE and the session has reached REQUEST_PARSED or later; and it has fired
\* as soon as all four values are present.
C2_CompletionOnce ==
    /\ signals <= 1
    /\ signals = 1 => (AllValuesPresent(formInformation) /\ parserState = DONE /\ Completed)
    /\ AllValuesPresent(formInformation) => signals = 1

\* the signal has fired and a further line (again holding the token marker and a
\* value) was examined afterwards
C2_Witness ==
    /\ signals = 1
    /\ lastStep.pre = DONE
    /\ Find(lastStep.line, TOKEN_FIELD_ID) # 0

\* a step of loop() that begins with the session reset
ResetStep == pc = "loop" /\ StateAfterRetryCheck = WIFI_CONNECTED

\* C3: write-once values.  In every step that is not a session reset, a value
\* that is present keeps its content.
C3_WriteOnce ==
    [][\A f \in FieldNames :
          (has_value(formInformation[f]) /\ ~ResetStep)
              => formInformation'[f] = formInformation[f]]_vars

\* the token is held and a later line repeating the token marker with another
\* value has been examined
C3_Witness ==
    /\ formInformation._token = <<(<<"a">>)>>
    /\ lastStep.pre = TOKEN_VALUE_FOUND
    /\ lastStep.line = Ln(Field(TOKEN_FIELD_ID, <<"b">>))

\* C4: reset leaves no stale state.  As long as no byte has been fed since the
\* reset, the four values are absent, the parser state is Init, the accumulator
\* and every ring slot are empty and the running counter is 0; and a value that
\* is present is the one a fresh parser extracts from the bytes fed since the
\* reset.
C4_ResetClears ==
    /\ fed = <<>> =>
          /\ formInformation = NoFormInformation
          /\ parserState = PARSER_INIT
          /\ currentLine = <<>>
          /\ lineBuffer = EmptyLineBuffer
          /\ bufferIndex = 0
          /\ signals = 0
    /\ \A f \in FieldNames :
          has_value(formInformation[f])
              => formInformation[f] = FreshParse(fed).formInformation[f]

\* a session whose reset threw away a captured token has captured its own token
C4_Witness ==
    /\ discarded
    /\ has_value(formInformation._token)
    /\ pc = "reading"

\* the states that wait for a field marker, with the marker, the field and the
\* state entered when the value is captured
MarkerStates ==
    {[waiting |-> SEARCH_STRING_FOUND, marker |-> TOKEN_FIELD_ID, field |-> "_token",
      found |-> TOKEN_FIELD_FOUND, captured |-> TOKEN_VALUE_FOUND],
     [waiting |-> TOKEN_VALUE_FOUND, marker |-> CEID_FIELD_ID, field |-> "_ceid",
      found |-> CEID_FIELD_FOUND, captured |-> CEID_VALUE_FOUND],
     [waiting |-> CEID_VALUE_FOUND, marker |-> CHECKIT_FIELD_ID, field |-> "checkit",
      found |-> CHECKIT_FIELD_FOUND, captured |-> CHECKIT_VALUE_FOUND],
     [waiting |-> CHECKIT_VALUE_FOUND, marker |-> FORMTYPE_FIELD_ID, field |-> "form_type",
      found |-> FORMTYPE_FIELD_FOUND, captured |-> FORMTYPE_VALUE_FOUND]}

\* C5: drain on the same line.  When the last line step started in a state
\* waiting for a field marker and its line holds that marker and value=", the
\* field is captured and the parser is in the ValueFound state or later; and
\* after any line step no further transition is enabled by that line.
C5_DrainSameLine ==
    lastStep.count > 0 =>
        /\ \A m \in MarkerStates :
              (/\ lastStep.pre = m.waiting
               /\ Find(lastStep.line, m.marker) # 0
               /\ Find(lastStep.line, VALUE_FIELD_BEGINNING) # 0)
              => (/\ has_value(formInformation[m.field])
                  /\ parserState >= m.captured)
        /\ SwitchPass(lastStep.line, Globals).parserState = parserState

\* the line name="_token" value="tok123" was examined in state SearchMarkerFound
\* and left the parser in TokenValueFound
C5_Witness ==
    /\ lastStep.count > 0
    /\ lastStep.pre = SEARCH_STRING_FOUND
    /\ lastStep.line = Ln(Field(TOKEN_FIELD_ID, Tok123))
    /\ parserState = TOKEN_VALUE_FOUND
    /\ formInformation._token = <<Tok123>>

\* the text of a line from position idx up to its end, the terminating line feed
\* not included
TextToLineEnd(line, idx) ==
    SubSeq(line, idx, IF line[Len(line)] = LF THEN Len(line) - 1 ELSE Len(line))

\* C6: unterminated value.  When the last line step started in a FieldFound state
\* and its line holds value=" with no closing quote before the end of the line,
\* the value captured is exactly the characters after value=" up to the line end
\* (trunc for value="trunc) and the parser is in the ValueFound state or later.
C6_UnterminatedValue ==
    \A m \in MarkerStates :
        (/\ lastStep.count > 0
         /\ lastStep.pre = m.found
         /\ OpenValue(lastStep.line))
        => (/\ formInformation[m.field] =
                  <<TextToLineEnd(lastStep.line,
                                  Find(lastStep.line, VALUE_FIELD_BEGINNING)
                                      + VALUE_FIELD_BEGINNING_LEN)>>
            /\ parserState >= m.captured)

\* what the code does there: the line kept in the ring slot ends with its line
\* feed, so the scan copies the line feed into the value as well
C6_CapturesLineFeed ==
    \A m \in MarkerStates :
        (/\ lastStep.count > 0
         /\ lastStep.pre = m.found
         /\ OpenValue(lastStep.line))
        => (/\ formInformation[m.field] =
                  <<SubSeq(lastStep.line,
                           Find(lastStep.line, VALUE_FIELD_BEGINNING)
                               + VALUE_FIELD_BEGINNING_LEN,
                           Len(lastStep.line))>>
            /\ parserState >= m.captured)

\* s.find(pat, from): the least position at or after from where pat occurs, 0 if none
FindFrom(s, pat, from) ==
    LET hits == {i \in from..(Len(s) - Len(pat) + 1) : SubSeq(s, i, i + Len(pat) - 1) = pat}
    IN  IF hits = {} THEN 0 ELSE CHOOSE i \in hits : \A j \in hits : i <= j

\* C7: each value is the quoted value following its own marker.  A field captured
\* in the last line step holds the text between the first value=" that follows the
\* field's marker (anywhere on the line if the marker was found on an earlier
\* line) and the next quote.
C7_ValueFollowsMarker ==
    \A m \in MarkerStates :
        (/\ lastStep.count > 0
         /\ ~has_value(lastStep.preInfo[m.field])
         /\ has_value(formInformation[m.field]))
        => LET line == lastStep.line
               from == IF lastStep.pre <= m.waiting
                       THEN Find(line, m.marker) + Len(m.marker)
                       ELSE 1
               value_pos == FindFrom(line, VALUE_FIELD_BEGINNING, from)
           IN  /\ value_pos # 0
               /\ formInformation[m.field] =
                     <<ScanValue(line, value_pos + VALUE_FIELD_BEGINNING_LEN)>>

NumLines(bytes) == Cardinality({i \in 1..Len(bytes) : bytes[i] = LF})
IsPrefix(a, b) == Len(a) <= Len(b) /\ SubSeq(b, 1, Len(a)) = a

\* the parser state after 0..5 lines of the reference page
ReferenceStates ==
    <<PARSER_INIT, SEARCH_STRING_FOUND, TOKEN_VALUE_FOUND, CEID_VALUE_FOUND,
      CHECKIT_VALUE_FOUND, DONE>>
ReferenceLines ==
    <<Ln(RefAction), Ln(Field(TOKEN_FIELD_ID, Tok123)), Ln(Field(CEID_FIELD_ID, Ce9)),
      Ln(Field(CHECKIT_FIELD_ID, One)), Ln(Field(FORMTYPE_FIELD_ID, Login))>>
ReferenceInfo(k) ==
    [_token |-> IF k >= 2 THEN <<Tok123>> ELSE nullopt,
     _ceid |-> IF k >= 3 THEN <<Ce9>> ELSE nullopt,
     checkit |-> IF k >= 4 THEN <<One>> ELSE nullopt,
     form_type |-> IF k >= 5 THEN <<Login>> ELSE nullopt]

\* C8: the reference stream end to end.  Under every chunking, after k complete
\* lines of the reference page the parser state is Init, SearchMarkerFound,
\* TokenValueFound, ClientIdValueFound, CheckitValueFound, Done for k = 0..5; each
\* value line was examined starting in the state waiting for its marker and its
\* value is held right after it; completion has fired exactly when the fifth line
\* is complete, with token=tok123, client-id=ce9, checkit=1, form-type=login.
C8_ReferenceStream ==
    (fed # <<>> /\ IsPrefix(fed, ReferencePage)) =>
        LET k == NumLines(fed)
        IN  /\ parserState = ReferenceStates[k + 1]
            /\ formInformation = ReferenceInfo(k)
            /\ signals = (IF k = 5 THEN 1 ELSE 0)
            /\ Completed <=> (k = 5)
            /\ lastStep.count = k
            /\ k >= 1 => /\ lastStep.line = ReferenceLines[k]
                         /\ lastStep.pre = ReferenceStates[k]

\* the whole reference page was fed, in chunks one of which ended inside a value
C8_Witness ==
    /\ fed = ReferencePage
    /\ cutInValue
    /\ signals = 1
    /\ formInformation =
          [_token |-> <<Tok123>>, _ceid |-> <<Ce9>>, checkit |-> <<One>>,
           form_type |-> <<Login>>]

\* C9: the JSON fetch is gated on the successful submission.  A JSON fetch has
\* happened only if the session state is POST_SUCCEEDED or ENDPOINT_REACHED, and
\* in those states the form POST has returned HTTP OK in this run, it was built
\* from the four captured values, and completion was signalled before.
C9_FetchGated ==
    /\ fisReads # <<>> => stateMachine \in {POST_SUCCEEDED, ENDPOINT_REACHED}
    /\ stateMachine \in {POST_SUCCEEDED, ENDPOINT_REACHED} =>
          /\ formPostOk
          /\ signals = 1
          /\ AllValuesPresent(formInformation)
          /\ postData = <<formInformation>>

\* the JSON document was fetched and forwarded
C9_Witness ==
    /\ fisReads # <<>>
    /\ stateMachine = ENDPOINT_REACHED

\* C10: the JSON fetch is rate-limited.  The clock read at a JSON fetch exceeds
\* the clock read at the previous one by more than FIS_FETCH_INTERVAL_MS (in
\* uint32_t arithmetic).
C10_RateLimited ==
    Len(fisReads) = 2 =>
        Greater32(Minus32(fisReads[2], fisReads[1]), U32(FIS_FETCH_INTERVAL_MS))

\* what the code guarantees: the interval is kept unless the earlier fetch read
\* the clock as 0, the value that also means "never fetched"
C10_RateLimitedUnlessZero ==
    (Len(fisReads) = 2 /\ fisReads[1] # U32(0)) =>
        Greater32(Minus32(fisReads[2], fisReads[1]), U32(FIS_FETCH_INTERVAL_MS))

\* an attempt has ended without the completion signal: loop() has returned from
\* case WIFI_CONNECTED and the session is still in REQUEST_MADE
AttemptFailed == pc = "loop" /\ stateMachine = REQUEST_MADE

\* the parser's globals are those of a fresh session
ParserReset ==
    /\ formInformation = NoFormInformation
    /\ parserState = PARSER_INIT
    /\ currentLine = <<>>
    /\ lineBuffer = EmptyLineBuffer
    /\ bufferIndex = 0

\* C11: stall is always retried after a full reset.  Every attempt that ended
\* without the completion signal has a retry scheduled; from every such state a
\* new attempt eventually starts (for each attempt below MaxAttempts); and an
\* attempt starts with the four values, the parser state, the accumulator, the
\* ring buffer and the running counter reset.
C11_StallRetried ==
    /\ [](AttemptFailed => has_value(retryTimeout))
    /\ \A n \in 1..(MaxAttempts - 1) :
          (AttemptFailed /\ has_value(retryTimeout) /\ attempts = n) ~> (attempts > n)
    /\ [][attempts' > attempts => ParserReset']_vars

\* what the code guarantees: the retry is scheduled and the attempt starts from a
\* full reset; the new attempt starts once a loop() call reads the clock above
\* the timeout value
C11_RetryWhenClockAbove ==
    /\ [](AttemptFailed => has_value(retryTimeout))
    /\ [][attempts' > attempts => ParserReset']_vars
    /\ [][(AttemptFailed /\ RetryFires) => attempts' > attempts]_vars

\* C12: parser-state monotonicity.  In every step that is not a session reset the
\* ordinal of the parser state does not decrease; within a line step the state
\* the loop ended in lies between the state before and the state after; and one
\* pass over the line examined last does not lower any parser state.
C12_Monotonic ==
    /\ [][~ResetStep => parserState' >= parserState]_vars
    /\ [](lastStep.count > 0 =>
            /\ lastStep.pre <= lastStep.post
            /\ lastStep.post <= parserState
            /\ \A st \in PARSER_INIT..DONE :
                  SwitchPass(lastStep.line, [Globals EXCEPT !.parserState = st]).parserState
                      >= st)

\* a line step has taken the parser from CheckitValueFound to Done
C12_Witness ==
    /\ lastStep.count > 0
    /\ lastStep.pre = CHECKIT_VALUE_FOUND
    /\ lastStep.post = FORMTYPE_VALUE_FOUND
    /\ parserState = DONE

\* C13: fixed capture order.  In every reachable state the values present are a
\* prefix of (token, client-id, checkit, form-type).
C13_CaptureOrder ==
    /\ has_value(formInformation._ceid) => has_value(formInformation._token)
    /\ has_value(formInformation.checkit) => has_value(formInformation._ceid)
    /\ has_value(formInformation.form_type) => has_value(formInformation.checkit)

\* token and client-id are held, checkit and form-type are not yet
C13_Witness ==
    /\ has_value(formInformation._token)
    /\ has_value(formInformation._ceid)
    /\ ~has_value(formInformation.checkit)
    /\ ~has_value(formInformation.form_type)

\* the number of parser states, PARSER_INIT..DONE
NumParserStates == DONE + 1

\* C14: the per-line loop is bounded.  A line step makes at least one pass and at
\* most as many as there are parser states, and every pass but the last advanced
\* the state (by one state each, so the passes are the states advanced plus one);
\* and from every starting parser state the loop over the line examined last
\* ends within that many passes.
C14_BoundedPasses ==
    lastStep.count > 0 =>
        /\ lastStep.passes >= 1
        /\ lastStep.passes <= NumParserStates
        /\ lastStep.passes = (lastStep.post - lastStep.pre) + 1
        /\ \A st \in PARSER_INIT..DONE :
              LET looped == DoWhile(lastStep.line, [Globals EXCEPT !.parserState = st], 0)
              IN  /\ looped.passes <= NumParserStates
                  /\ looped.passes = (looped.g.parserState - st) + 1

\* a line holding the form start and all four fields was examined in state Init:
\* nine advancing passes and the last one
C14_Witness ==
    /\ lastStep.count > 0
    /\ lastStep.pre = PARSER_INIT
    /\ lastStep.post = FORMTYPE_VALUE_FOUND
    /\ lastStep.passes = 10

\* the chunk fed by the step
ChunkFed == SubSeq(fed', Len(fed) + 1, Len(fed'))

\* C15: a chunk without a line feed only extends the accumulator.  In a step of
\* the read loop that feeds a non-empty chunk holding no line feed, the
\* accumulator grows by the chunk and the ring buffer, the running counter, the
\* parser state, the four values, the completion signal and the last line step
\* are unchanged; feeding a chunk of length 0 changes nothing; and the number of
\* line steps is the number of line feeds fed, so data without its line feed is
\* never examined.
C15_NewlineFreeChunk ==
    /\ [][(/\ pc = "reading"
           /\ Len(fed') > Len(fed)
           /\ \A i \in 1..Len(ChunkFed) : ChunkFed[i] # LF)
          => (/\ currentLine' = currentLine \o ChunkFed
              /\ UNCHANGED <<lineBuffer, bufferIndex, parserState, formInformation,
                             signals, stateMachine, lastStep>>)]_vars
    /\ [](parseResponseBufferIntoLineBuffer(Globals, <<>>) = Globals)
    /\ [](lastStep.count = NumLines(fed))

\* the body has ended after a token field without its line feed, received in
\* several chunks: the field is in the accumulator and no token was captured
C15_Witness ==
    /\ pc = "reading"
    /\ stream = <<>>
    /\ currentLine = Field(TOKEN_FIELD_ID, Tok123)
    /\ cutInValue
    /\ parserState = SEARCH_STRING_FOUND
    /\ ~has_value(formInformation._token)

\* the position of the last line feed of bytes, 0 if there is none
LastLF(bytes) ==
    LET at == {i \in 1..Len(bytes) : bytes[i] = LF}
    IN  IF at = {} THEN 0 ELSE CHOOSE i \in at : \A j \in at : j <= i

\* the last complete line of bytes, its line feed included
LastLine(bytes) ==
    LET end == LastLF(bytes)
    IN  SubSeq(bytes, LastLF(SubSeq(bytes, 1, end - 1)) + 1, end)

\* C16: the accumulator invariant.  After every feed the accumulator holds no
\* line feed and is exactly the bytes fed since the last line feed of the session
\* (all bytes fed if there is none); the line handed on last is the last complete
\* line fed, it ends with its line feed and it is what the ring slot holds.
C16_Accumulator ==
    /\ \A i \in 1..Len(currentLine) : currentLine[i] # LF
    /\ currentLine = SubSeq(fed, LastLF(fed) + 1, Len(fed))
    /\ lastStep.count > 0 =>
          /\ lastStep.line = LastLine(fed)
          /\ lastStep.line[Len(lastStep.line)] = LF
          /\ lineBuffer[lastStep.slot] = lastStep.line

\* a feed has returned in the middle of a line, after lines were handed on
C16_Witness ==
    /\ pc = "reading"
    /\ lastStep.count > 1
    /\ Len(lastStep.line) > 1
    /\ currentLine # <<>>
    /\ stream # <<>>

\* the position of the n-th line feed of bytes (n from 1), 0 for n = 0
LfAt(bytes, n) ==
    LET at == {i \in 1..Len(bytes) : bytes[i] = LF}
    IN  IF n = 0 THEN 0
        ELSE CHOOSE i \in at : Cardinality({j \in at : j <= i}) = n

\* the k-th line of bytes (k from 0), its line feed included
LineOf(bytes, k) == SubSeq(bytes, LfAt(bytes, k) + 1, LfAt(bytes, k + 1))

\* C17: every completed line is examined once, in stream order.  With n line
\* feeds fed since the reset there were n line steps; the running counter is
\* n mod 10, within 0..9; the last step read slot (n - 1) mod 10 and found there
\* line n - 1 of the stream; and every slot holds the latest line whose number is
\* the slot's modulo 10, or nothing if there is none.
C17_RingOrder ==
    LET n == NumLines(fed)
    IN  /\ lastStep.count = n
        /\ bufferIndex \in 0..(LINE_BUFFER_SIZE - 1)
        /\ bufferIndex = n % LINE_BUFFER_SIZE
        /\ n > 0 =>
              /\ lastStep.slot = (n - 1) % LINE_BUFFER_SIZE
              /\ lastStep.line = LineOf(fed, n - 1)
        /\ \A slot \in 0..(LINE_BUFFER_SIZE - 1) :
              LET stored == {k \in 0..(n - 1) : k % LINE_BUFFER_SIZE = slot}
              IN  lineBuffer[slot] =
                     IF stored = {} THEN <<>>
                     ELSE LineOf(fed, CHOOSE k \in stored : \A j \in stored : j <= k)

\* the twelfth line of a session, the form start, was stored in slot 1 and
\* examined there, after slot 0 was overwritten by the eleventh
C17_Witness ==
    /\ lastStep.count = LINE_BUFFER_SIZE + 2
    /\ lastStep.slot = 1
    /\ lastStep.line = Ln(ShortAction)
    /\ lineBuffer[0] = <<LF>>
    /\ parserState = SEARCH_STRING_FOUND

\* C18: values and parser state stay in lock-step.  Between line steps the token
\* is present exactly when the parser state is TokenValueFound or later,
\* client-id exactly from ClientIdValueFound, checkit exactly from
\* CheckitValueFound, form-type exactly in Done; and when the last line step
\* entered Done, its loop ended in FormTypeValueFound and form-type was absent
\* before it.
C18_LockStep ==
    /\ has_value(formInformation._token) <=> parserState >= TOKEN_VALUE_FOUND
    /\ has_value(formInformation._ceid) <=> parserState >= CEID_VALUE_FOUND
    /\ has_value(formInformation.checkit) <=> parserState >= CHECKIT_VALUE_FOUND
    /\ has_value(formInformation.form_type) <=> parserState = DONE
    /\ (parserState = DONE /\ lastStep.pre # DONE) =>
          /\ lastStep.post = FORMTYPE_VALUE_FOUND
          /\ ~has_value(lastStep.preInfo.form_type)

\* the line step that captured form-type has entered Done and signalled completion
C18_Witness ==
    /\ signals = 1
    /\ stateMachine = REQUEST_PARSED
    /\ lastStep.pre = CHECKIT_VALUE_FOUND
    /\ ~has_value(lastStep.preInfo.form_type)
    /\ has_value(formInformation.form_type)

\* C19: a parsed session is complete.  Whenever the session state is
\* REQUEST_PARSED, POST_SUCCEEDED or ENDPOINT_REACHED all four values are present
\* and the parser state is DONE; a loop() call that enters case REQUEST_PARSED
\* finds the four values, so its branch for incomplete form information is not
\* taken; and a form POST was built from four captured values.
C19_ParsedIsComplete ==
    /\ Completed => (AllValuesPresent(formInformation) /\ parserState = DONE)
    /\ (pc = "loop" /\ StateAfterRetryCheck = REQUEST_PARSED)
          => AllValuesPresent(formInformation)
    /\ has_value(postData) => AllValuesPresent(postData[1])

\* the form POST was built and sent, did not return HTTP OK, and the session is
\* still in REQUEST_PARSED
C19_Witness ==
    /\ stateMachine = REQUEST_PARSED
    /\ pc = "loop"
    /\ has_value(postData)
    /\ ~formPostOk

\* C20: a retry can only interrupt an unfinished fetch.  Between loop() calls a
\* pending retry timeout implies the session state REQUEST_MADE; a session that
\* has reached REQUEST_PARSED or later stays there and keeps its four values in
\* every step; and ENDPOINT_REACHED is never left.
C20_RetryOnlyUnfinished ==
    /\ []((pc = "loop" /\ has_value(retryTimeout)) => stateMachine = REQUEST_MADE)
    /\ [][Completed => (Completed' /\ formInformation' = formInformation)]_vars
    /\ [][stateMachine = ENDPOINT_REACHED => stateMachine' = ENDPOINT_REACHED]_vars

\* the form POST returned HTTP OK, two JSON fetches have run and none was
\* forwarded, and the session still holds its four values
C20_Witness ==
    /\ stateMachine = POST_SUCCEEDED
    /\ Len(fisReads) = 2
    /\ AllValuesPresent(formInformation)
    /\ retryTimeout = nullopt

====
